---- MODULE Spec2Model ----
(***************************************************************************)
(* The autopilot inference service (autopilot/server.py) together with the *)
(* pieces of autopilot/inference.py, autopilot/model.py and                *)
(* autopilot/train.py that its requests go through.                        *)
(*                                                                         *)
(* Numbers: sensor readings and action indicators are floats in the code;  *)
(* every value used here is integral, so it is written as an integer.      *)
(* Probabilities are written in hundredths (50 is 0.5).  A normalized      *)
(* value (v - mean) / std is kept as the unevaluated quotient              *)
(* [num |-> v - mean, den |-> std].                                        *)
(***************************************************************************)
EXTENDS Integers, Sequences, FiniteSets, TLC

VARIABLES
    checkpoint,             \* the file ./models/best_model.pt (server.py:52)
    startup,                \* the startup event: "pending", "done" or "failed"
    autopilot,              \* server.py:28, None or the AutopilotInference
    seq_len,                \* the sequence length the model was trained with
    ingested,               \* observations the service accepted from the
                            \* session since start or the last /reset request
    sequence_with_actions,  \* server.py:111, the sequence predict built last
    sequence_tensor,        \* server.py:134, what predict handed to the model
    response,               \* the answer to the last request
    request,                \* the payload of the last POST /predict
    stdout,                 \* the warnings printed so far
    cli_inference,          \* inference.py: the AutopilotInference in use
    cli_call,               \* its last method call
    features_tensor,        \* the shape of the tensor that call gave the model
    cli_result,             \* what that call returned or raised
    telemetry,              \* data_loader.py: the telemetry files, in order
    files_done,             \* how many of them the loop has been through
    all_sequences,          \* the sequences built so far
    all_labels,             \* their labels
    all_origins,            \* for each sequence, its file and window start
    loader_pc,              \* "loading", "returned" or "raised"
    epochs,                 \* train.py: the arguments of train()
    early_stopping_patience,
    epoch,                  \* the number of epochs run
    val_losses,             \* the validation loss of each of them
    best_val_loss,
    best_epoch,
    patience_counter,
    best_model_pt,          \* models/best_model.pt: None or when written
    final_model_pt,         \* models/final_model.pt: None or when written
    early_stopped,          \* the loop was left by its break
    train_pc,               \* "idle", "loop", "after_loop" or "done"
    data_features,          \* the feature rows a caller holds
    data_labels,            \* and their labels
    np_random,              \* the state of numpy's global generator
    fn_call,                \* the last call of a function of dataset.py,
                            \* augmentation.py or train_epoch's batch step
    fn_result               \* and what it returned

server_vars == <<checkpoint, startup, autopilot, seq_len, ingested,
                 sequence_with_actions, sequence_tensor, response, request,
                 stdout>>
cli_vars == <<cli_inference, cli_call, features_tensor, cli_result>>
loader_vars == <<telemetry, files_done, all_sequences, all_labels,
                 all_origins, loader_pc>>

train_vars == <<epochs, early_stopping_patience, epoch, val_losses,
                best_val_loss, best_epoch, patience_counter, best_model_pt,
                final_model_pt, early_stopped, train_pc>>
fn_vars == <<data_features, data_labels, np_random, fn_call, fn_result>>

vars == <<server_vars, cli_vars, loader_vars, train_vars, fn_vars>>

\* Python's None, where an object is expected.
None == [none |-> TRUE]

----------------------------------------------------------------------------
(* Bounds of the model *)

MaxSeqLen == 2      \* seq_len ranges over 1..MaxSeqLen
MaxT == 3           \* a payload carries at most MaxT timesteps
MaxIngested == 2    \* observations tracked per session
MaxBatch == 2       \* predict_batch takes up to MaxBatch samples
MaxFiles == 2       \* a telemetry directory holds up to MaxFiles files
MaxFileLen == 4     \* of up to MaxFileLen samples each
MaxEpochs == 5      \* train() runs up to MaxEpochs epochs
MaxPatience == 2    \* early_stopping_patience ranges over 0..MaxPatience
MaxSamples == 3     \* a dataset in memory has up to MaxSamples rows

(* Program constants *)

input_size == 10    \* train.py:304, model.py:21
n_sensor_fields == 6        \* server.py:14
n_action_fields == 4        \* server.py:15

\* The thresholds, 0.5 each, in hundredths.
server_threshold == 50              \* server.py:144
predict_threshold == 50             \* inference.py:68
predict_batch_threshold == 50       \* inference.py:131
predict_commands_threshold == 50    \* model.py:87
sensor_min == 0                     \* augmentation.py:51
sensor_max == 1500                  \* augmentation.py:51
calculate_accuracy_threshold == 50  \* train.py:19

----------------------------------------------------------------------------
(* Inputs *)

SeqsUpTo(S, n) == UNION {[1..k -> S] : k \in 0..n}

R1 == <<100, 200, 300, 200, 100, 5>>
R2 == <<150, 250, 350, 250, 150, 7>>
RShort == <<100, 300, 100, 5>>          \* a reading of the wrong arity
RWide == <<100, 200, 300, 200, 100, 5, 1, 1, 1, 1>>     \* and another

Timesteps == {R1, R2}

\* Payloads: every sequence of well-formed readings, and two malformed ones.
XInputs == SeqsUpTo(Timesteps, MaxT) \cup {<<RShort>>, <<R1, RShort>>}

default_prev_actions == <<0, 0, 0, 0>>

PrevActionInputs == {default_prev_actions, <<1, 0, 1, 1>>, <<2, 0, 0, 0>>}

SequencePayload ==
    [x : XInputs, prev_actions : PrevActionInputs]
        \cup {[x |-> <<RWide>>, prev_actions |-> <<>>]}

\* What the model and the sigmoid may answer, in hundredths.
ProbVectors == {<<60, 40, 50, 51>>, <<49, 50, 49, 50>>, <<50, 49, 50, 49>>}

\* Probabilities and thresholds the conversions are tried on.
ProbLevels == {0, 40, 49, 50, 51, 60, 100}
ThresholdLevels == {40, 50, 60}

NormRecord ==
    [mean |-> <<100, 200, 300, 200, 100, 5, 0, 0, 0, 0>>,
     std  |-> <<50, 50, 50, 50, 50, 2, 1, 1, 1, 1>>]

\* A record in which the feature s_pressed_prev has standard deviation 0:
\* normalize_sequences never writes one, another producer's checkpoint can
\* hold it.
ZeroStdRecord ==
    [mean |-> <<100, 200, 300, 200, 100, 5, 0, 0, 0, 0>>,
     std  |-> <<50, 50, 50, 50, 50, 2, 1, 1, 0, 1>>]

ModelConfig == [input_size |-> input_size, output_size |-> 4]

Checkpoints ==
    {[model_config |-> ModelConfig, normalization_params |-> NormRecord],
     [model_config |-> ModelConfig, normalization_params |-> ZeroStdRecord],
     [model_config |-> ModelConfig, normalization_params |-> None]}

\* A checkpoint file that torch.load or load_state_dict rejects.
Corrupt == [corrupt |-> TRUE]

----------------------------------------------------------------------------
(* autopilot/model.py and autopilot/inference.py *)

load_model_fn(ckpt) ==
    [model |-> ckpt.model_config,
     normalization_params |-> ckpt.normalization_params]

\* inference.py:40-42: what __init__ prints when the record is missing.
NoNormalizationWarning ==
    "Warning: No normalization parameters found in checkpoint."

init_output_silent(ckpt) == <<>>
init_output(ckpt) ==
    IF load_model_fn(ckpt).normalization_params = None
    THEN <<NoNormalizationWarning>>
    ELSE <<>>

AutopilotInference(ckpt) ==
    LET loaded == load_model_fn(ckpt) IN
    [device |-> "cpu",
     model |-> loaded.model,
     normalization_params |-> loaded.normalization_params]

\* The names an AutopilotInference instance answers to.
AutopilotInferenceAttrs ==
    {"device", "model", "normalization_params",
     "normalize_features", "predict", "predict_batch"}

----------------------------------------------------------------------------
(* The predict handler's steps *)

\* server.py:111-119: every timestep gets the payload's prev_actions appended.
full_timestep(timestep, prev_actions) == timestep \o prev_actions

BuildSequence_stateful(payload) ==
    ingested \o [t \in 1..Len(payload.x) |->
                    full_timestep(payload.x[t], payload.prev_actions)]
BuildSequence(payload) ==
    [t \in 1..Len(payload.x) |->
        full_timestep(payload.x[t], payload.prev_actions)]

\* server.py:122: np.array(..., dtype=float32) wants rows of one length.
np_array_ok(seq) ==
    \A s, t \in 1..Len(seq) : Len(seq[s]) = Len(seq[t])

Width(seq) == IF Len(seq) = 0 THEN 0 ELSE Len(seq[1])

\* server.py:128-129: reshape(-1, 10), then reshape(1, len(payload.x), 10).
reshape_ok(seq) ==
    /\ (Len(seq) * Width(seq)) % input_size = 0
    /\ Len(seq) * Width(seq) = Len(seq) * input_size

normalize_value_undivided(v, mean, std) == [num |-> v - mean, den |-> 1]
normalize_value(v, mean, std) == [num |-> v - mean, den |-> std]

\* server.py:125-131
sequence_normalized_of(seq, params) ==
    IF params # None
    THEN [t \in 1..Len(seq) |->
            [f \in 1..Len(seq[t]) |->
                normalize_value(seq[t][f], params.mean[f], params.std[f])]]
    ELSE seq

\* model.py:62-85: the GRU takes (batch, T, input_size) with T >= 1.
forward_ok(model, seq) ==
    /\ Len(seq) >= 1
    /\ \A t \in 1..Len(seq) : Len(seq[t]) = model.input_size

\* server.py:121-141 runs without raising.
InferenceRuns_unchecked(inst, seq) ==
    /\ np_array_ok(seq)
    /\ (inst.normalization_params # None => reshape_ok(seq))
    /\ Len(seq) >= 1
InferenceRuns(inst, seq) ==
    /\ np_array_ok(seq)
    /\ (inst.normalization_params # None => reshape_ok(seq))
    /\ forward_ok(inst.model, seq)

\* server.py:146-149
server_command_strict(prob, threshold) == prob > threshold
server_command(prob, threshold) == prob >= threshold

\* inference.py:114-117, AutopilotInference.predict
inference_command(prob, threshold) == prob >= threshold

\* inference.py:158, AutopilotInference.predict_batch
predict_batch_command(prob, threshold) == IF prob >= threshold THEN 1 ELSE 0

\* model.py:100, AutopilotGRU.predict_commands
predict_commands(prob, threshold) == IF prob >= threshold THEN 1 ELSE 0

\* train.py:33, calculate_accuracy
pred_binary(prob, threshold) == IF prob >= threshold THEN 1 ELSE 0

ControlCommands_swapped(probs) ==
    [endpoint |-> "/predict",
     status |-> 200,
     forward |-> server_command(probs[1], server_threshold),
     backward |-> server_command(probs[2], server_threshold),
     left |-> server_command(probs[3], server_threshold),
     right |-> server_command(probs[4], server_threshold),
     probabilities |-> probs]
ControlCommands(probs) ==
    [endpoint |-> "/predict",
     status |-> 200,
     forward |-> server_command(probs[1], server_threshold),
     backward |-> server_command(probs[3], server_threshold),
     left |-> server_command(probs[2], server_threshold),
     right |-> server_command(probs[4], server_threshold),
     probabilities |-> probs]

HTTPException(endpoint, status, detail) ==
    [endpoint |-> endpoint, status |-> status, detail |-> detail]

----------------------------------------------------------------------------
(* The service *)

\* Python floats as far as train() compares them: a number, inf or nan.
Num(n) == [kind |-> "num", v |-> n]
inf == [kind |-> "inf", v |-> 0]
nan == [kind |-> "nan", v |-> 0]

\* a < b on floats: every comparison with nan is False.
float_le(a, b) ==
    /\ a.kind = "num"
    /\ \/ b.kind = "inf"
       \/ b.kind = "num" /\ a.v <= b.v
float_lt(a, b) ==
    /\ a.kind = "num"
    /\ \/ b.kind = "inf"
       \/ b.kind = "num" /\ a.v < b.v

InitTrain ==
    /\ epochs = 0
    /\ early_stopping_patience = 0
    /\ epoch = 0
    /\ val_losses = <<>>
    /\ best_val_loss = inf
    /\ best_epoch = 0
    /\ patience_counter = 0
    /\ best_model_pt = None
    /\ final_model_pt = None
    /\ early_stopped = FALSE
    /\ train_pc = "idle"

InitFn ==
    /\ data_features = <<>>
    /\ data_labels = <<>>
    /\ np_random = 0
    /\ fn_call = None
    /\ fn_result = None

InitCLI ==
    /\ cli_inference = None
    /\ cli_call = None
    /\ features_tensor = None
    /\ cli_result = None

InitLoader ==
    /\ telemetry = <<>>
    /\ files_done = 0
    /\ all_sequences = <<>>
    /\ all_labels = <<>>
    /\ all_origins = <<>>
    /\ loader_pc = "loading"

Init ==
    /\ InitCLI
    /\ InitLoader
    /\ InitTrain
    /\ InitFn
    /\ checkpoint \in Checkpoints \cup {Corrupt}
    /\ startup = "pending"
    /\ autopilot = None
    /\ seq_len \in 1..MaxSeqLen
    /\ ingested = <<>>
    /\ sequence_with_actions = <<>>
    /\ sequence_tensor = None
    /\ response = None
    /\ request = None
    /\ stdout = <<>>

\* server.py:47-60
load_model ==
    /\ startup = "pending"
    /\ IF checkpoint = Corrupt
       THEN /\ startup' = "failed"
            /\ UNCHANGED <<autopilot, stdout>>
       ELSE /\ startup' = "done"
            /\ autopilot' = AutopilotInference(checkpoint)
            /\ stdout' = stdout \o init_output(checkpoint)
    /\ UNCHANGED <<checkpoint, seq_len, ingested, sequence_with_actions,
                   sequence_tensor, response, request>>
    /\ UNCHANGED <<cli_vars, loader_vars, train_vars, fn_vars>>

\* server.py:77-78 and 100-101: raised before the handler's try block, so
\* no except clause of the handler sees it.
model_not_loaded_caught(endpoint) ==
    HTTPException(endpoint, 500, "Inference error")
model_not_loaded(endpoint) ==
    HTTPException(endpoint, 503, "Model not loaded")

\* server.py:63-70
health_check ==
    /\ startup # "failed"
    /\ response' = [endpoint |-> "/health",
                    status |-> 200,
                    model_loaded |-> (autopilot # None),
                    model_type |-> IF autopilot # None THEN "GRU" ELSE "null"]
    /\ UNCHANGED <<checkpoint, startup, autopilot, seq_len, ingested,
                   sequence_with_actions, sequence_tensor, request, stdout>>
    /\ UNCHANGED <<cli_vars, loader_vars, train_vars, fn_vars>>

\* What autopilot.reset_buffer() leaves of the instance: the class defines no
\* such method, so the call raises AttributeError and touches nothing.
after_reset_buffer_clearing(inst) ==
    [inst EXCEPT !.normalization_params = None]
after_reset_buffer(inst) == inst

\* server.py:73-86
reset_buffer ==
    /\ startup # "failed"
    /\ IF autopilot = None
       THEN /\ response' = model_not_loaded("/reset")
            /\ UNCHANGED autopilot
       ELSE IF "reset_buffer" \in AutopilotInferenceAttrs
            THEN /\ autopilot' = after_reset_buffer(autopilot)
                 /\ response' = [endpoint |-> "/reset", status |-> 200,
                                 body |-> "buffer_reset"]
            ELSE /\ autopilot' = after_reset_buffer(autopilot)
                 /\ response' = HTTPException("/reset", 500, "Reset error")
    /\ ingested' = <<>>
    /\ UNCHANGED <<checkpoint, startup, seq_len, sequence_with_actions,
                   sequence_tensor, request, stdout>>
    /\ UNCHANGED <<cli_vars, loader_vars, train_vars, fn_vars>>

\* The float a quotient evaluates to: x/0 is inf or -inf, 0/0 is nan
\* (numpy divides arrays without raising).
IsNaN(q) == q.den = 0 /\ q.num = 0
IsInf(q) == q.den = 0 /\ q.num # 0

HasNaN(inst, tensor) ==
    /\ inst.normalization_params # None
    /\ \E t \in 1..Len(tensor) : \E f \in 1..Len(tensor[t]) :
          IsNaN(tensor[t][f])

HasInf(inst, tensor) ==
    /\ inst.normalization_params # None
    /\ \E t \in 1..Len(tensor) : \E f \in 1..Len(tensor[t]) :
          IsInf(tensor[t][f])

\* The probabilities the network can produce for a tensor: any vector for
\* finite features; nan for every output when a feature is nan; either
\* when a feature is infinite (gates saturate, or inf - inf gives nan).
\* nan_output stands for the vector of four nan.
nan_output == [nan |-> TRUE, probs |-> <<>>]

finite_outputs == {[nan |-> FALSE, probs |-> probs] : probs \in ProbVectors}

model_outputs(inst, tensor) ==
    IF HasNaN(inst, tensor) THEN {nan_output}
    ELSE IF HasInf(inst, tensor) THEN finite_outputs \cup {nan_output}
    ELSE finite_outputs

\* What the client receives for the returned ControlCommands: nan is not
\* representable in the JSON body, and the failure is raised after the
\* handler's try block has been left.
predict_response(out) ==
    IF out.nan
    THEN HTTPException("/predict", 500, "Internal Server Error")
    ELSE ControlCommands(out.probs)

\* server.py:89-159
predict(payload) ==
    /\ startup # "failed"
    /\ Len(ingested) < MaxIngested
    /\ request' = payload
    /\ IF autopilot = None
       THEN /\ response' = model_not_loaded("/predict")
            /\ UNCHANGED <<ingested, sequence_with_actions, sequence_tensor>>
       ELSE LET seq == BuildSequence(payload) IN
            /\ sequence_with_actions' = seq
            /\ IF InferenceRuns(autopilot, seq)
               THEN LET tensor == sequence_normalized_of(seq,
                                          autopilot.normalization_params) IN
                    /\ sequence_tensor' = [data |-> tensor]
                    /\ ingested' = Append(ingested, seq[Len(seq)])
                    /\ \E out \in model_outputs(autopilot, tensor) :
                          response' = predict_response(out)
               ELSE /\ sequence_tensor' = None
                    /\ response' =
                          HTTPException("/predict", 500, "Inference error")
                    /\ UNCHANGED ingested
    /\ UNCHANGED <<checkpoint, startup, autopilot, seq_len, stdout>>
    /\ UNCHANGED <<cli_vars, loader_vars, train_vars, fn_vars>>

Next ==
    \/ load_model
    \/ health_check
    \/ reset_buffer
    \/ \E payload \in SequencePayload : predict(payload)

Spec == Init /\ [][Next]_vars

----------------------------------------------------------------------------
(* The AutopilotInference class used from the command line, inference.py.
   Arrays are modelled by their shapes. *)

\* The sensor and speed arguments of AutopilotInference.predict.
SensorArgs == {100, 300}
SpeedArgs == {5, 7}

\* The shapes handed to predict_batch: (N, 4) as its docstring says, and
\* (N, T, 10) as the network takes them.
BatchShapes ==
    {<<n, 4>> : n \in 1..MaxBatch}
        \cup {<<n, t, input_size>> : n \in 1..MaxBatch, t \in 1..MaxT}

\* numpy broadcasting of an array of this shape with a vector of length n.
broadcast_ok(shape, n) ==
    LET last == shape[Len(shape)] IN last = n \/ last = 1 \/ n = 1

broadcast_shape(shape, n) ==
    [shape EXCEPT ![Len(shape)] = IF shape[Len(shape)] = 1 THEN n ELSE @]

\* inference.py:44-60, on shapes: whether (features - mean) / std raises.
normalize_features_ok(inst, shape) ==
    inst.normalization_params # None
        => broadcast_ok(shape, Len(inst.normalization_params.mean))

normalize_features_shape(inst, shape) ==
    IF inst.normalization_params = None
    THEN shape
    ELSE broadcast_shape(shape, Len(inst.normalization_params.mean))

\* model.py:62-85 on a shape: the GRU takes (batch, T, input_size); a 2-D
\* input has the wrong width or, unbatched, fails at gru_out[:, -1, :].
gru_forward_ok(model, shape) ==
    /\ Len(shape) = 3
    /\ shape[2] >= 1
    /\ shape[3] = model.input_size

\* inference.py:17-42
cli_construct ==
    /\ cli_inference = None
    /\ cli_result = None
    /\ IF checkpoint = Corrupt
       THEN /\ cli_result' = [raised |-> "load_model"]
            /\ UNCHANGED <<cli_inference, stdout>>
       ELSE /\ cli_inference' = AutopilotInference(checkpoint)
            /\ stdout' = stdout \o init_output(checkpoint)
            /\ UNCHANGED cli_result
    /\ UNCHANGED <<cli_call, features_tensor>>
    /\ UNCHANGED <<checkpoint, startup, autopilot, seq_len, ingested,
                   sequence_with_actions, sequence_tensor, response, request>>
    /\ UNCHANGED <<loader_vars, train_vars, fn_vars>>

\* The body shared by predict and predict_batch, inference.py:98-107 and
\* 146-154: normalize, make the tensor, call the model.
evaluate(shape, on_success) ==
    IF ~normalize_features_ok(cli_inference, shape)
    THEN /\ features_tensor' = None
         /\ cli_result' = [raised |-> "ValueError"]
    ELSE LET normalized == normalize_features_shape(cli_inference, shape) IN
         /\ features_tensor' = [shape |-> normalized]
         /\ IF gru_forward_ok(cli_inference.model, normalized)
            THEN on_success
            ELSE cli_result' = [raised |-> "RuntimeError"]

\* inference.py:62-126
inference_predict(l_sensor, c_sensor, r_sensor, speed) ==
    /\ cli_inference # None
    /\ cli_call' = [method |-> "predict",
                    args |-> <<l_sensor, c_sensor, r_sensor, speed>>]
    /\ evaluate(<<1, 4>>,
                \E probs \in ProbVectors :
                   cli_result' =
                      [forward |-> inference_command(probs[1], predict_threshold),
                       left |-> inference_command(probs[2], predict_threshold),
                       backward |-> inference_command(probs[3], predict_threshold),
                       right |-> inference_command(probs[4], predict_threshold),
                       probabilities |-> probs])
    /\ UNCHANGED cli_inference
    /\ UNCHANGED server_vars
    /\ UNCHANGED <<loader_vars, train_vars, fn_vars>>

\* inference.py:128-160
inference_predict_batch(features) ==
    /\ cli_inference # None
    /\ cli_call' = [method |-> "predict_batch", args |-> features]
    /\ evaluate(features,
                \E probs \in [1..features[1] -> ProbVectors] :
                   cli_result' =
                      [commands |->
                          [n \in 1..features[1] |->
                             [k \in 1..4 |->
                                predict_batch_command(probs[n][k],
                                                      predict_batch_threshold)]],
                       probs |-> probs])
    /\ UNCHANGED cli_inference
    /\ UNCHANGED server_vars
    /\ UNCHANGED <<loader_vars, train_vars, fn_vars>>

NextCLI ==
    \/ cli_construct
    \/ \E l_sensor, c_sensor, r_sensor \in SensorArgs : \E speed \in SpeedArgs :
          inference_predict(l_sensor, c_sensor, r_sensor, speed)
    \/ \E features \in BatchShapes : inference_predict_batch(features)

SpecCLI == Init /\ [][NextCLI]_vars

----------------------------------------------------------------------------
(* load_telemetry_sequences, data_loader.py *)

\* The sample at position k (from 0) of file j: every sample of a
\* directory has its own readings, and neighbours differ in their keys.
Sample(j, k) ==
    [l_sensor_range  |-> 1000 * j + 10 * k + 1,
     ml_sensor_range |-> 1000 * j + 10 * k + 2,
     c_sensor_range  |-> 1000 * j + 10 * k + 3,
     mr_sensor_range |-> 1000 * j + 10 * k + 4,
     r_sensor_range  |-> 1000 * j + 10 * k + 5,
     speed           |-> 10 * j + k,
     w_pressed |-> (k % 2 = 0),
     a_pressed |-> (k % 3 = 0),
     s_pressed |-> (j % 2 = 0),
     d_pressed |-> (k % 4 = 0)]

TelemetryFile(j, len) == [k \in 1..len |-> Sample(j, k - 1)]

\* The directories: one to MaxFiles files of up to MaxFileLen samples.
TelemetryDirs ==
    UNION {{[j \in 1..n |-> TelemetryFile(j, lens[j])] :
                lens \in [1..n -> 0..MaxFileLen]} : n \in 1..MaxFiles}

\* telemetry_data[i], with Python's indices from 0.
at(telemetry_data, i) == telemetry_data[i + 1]

\* int() of a JSON boolean.
int(b) == IF b THEN 1 ELSE 0

\* data_loader.py:63-70
sensors_and_speed(sample) ==
    <<sample.l_sensor_range, sample.ml_sensor_range, sample.c_sensor_range,
      sample.mr_sensor_range, sample.r_sensor_range, sample.speed>>

\* data_loader.py:77-82, 87-92, 100-105
pressed(sample) ==
    <<int(sample.w_pressed), int(sample.a_pressed),
      int(sample.s_pressed), int(sample.d_pressed)>>

\* data_loader.py:72-92
prev_actions_at_window_start(telemetry_data, i, t) ==
    IF t = 0
    THEN <<0, 0, 0, 0>>
    ELSE pressed(at(telemetry_data, i + t - 1))
prev_actions_at(telemetry_data, i, t) ==
    IF t = 0
    THEN IF i > 0
         THEN pressed(at(telemetry_data, i - 1))
         ELSE <<0, 0, 0, 0>>
    ELSE pressed(at(telemetry_data, i + t - 1))

\* data_loader.py:57-96: the sequence of the window that starts at i.
build_sequence(telemetry_data, i, n) ==
    [t1 \in 1..n |->
        sensors_and_speed(at(telemetry_data, i + (t1 - 1)))
            \o prev_actions_at(telemetry_data, i, t1 - 1)]

\* data_loader.py:98-105: its label.
build_label(telemetry_data, i, n) ==
    pressed(at(telemetry_data, i + n))

\* data_loader.py:51-56: the window starts of a file, none when skipped.
window_starts_short(telemetry_data, n) ==
    IF Len(telemetry_data) < n + 1
    THEN <<>>
    ELSE [w \in 1..(Len(telemetry_data) - n - 1) |-> w - 1]
window_starts(telemetry_data, n) ==
    IF Len(telemetry_data) < n + 1
    THEN <<>>
    ELSE [w \in 1..(Len(telemetry_data) - n) |-> w - 1]

InitTelemetry ==
    /\ InitCLI
    /\ InitTrain
    /\ InitFn
    /\ telemetry \in TelemetryDirs
    /\ files_done = 0
    /\ all_sequences = <<>>
    /\ all_labels = <<>>
    /\ all_origins = <<>>
    /\ loader_pc = "loading"
    /\ checkpoint = None
    /\ startup = "pending"
    /\ autopilot = None
    /\ seq_len \in 1..MaxSeqLen
    /\ ingested = <<>>
    /\ sequence_with_actions = <<>>
    /\ sequence_tensor = None
    /\ response = None
    /\ request = None
    /\ stdout = <<>>

\* data_loader.py:46-109: one turn of the loop over the files.
process_file ==
    /\ loader_pc = "loading"
    /\ files_done < Len(telemetry)
    /\ LET j == files_done + 1
           telemetry_data == telemetry[j]
           starts == window_starts(telemetry_data, seq_len)
       IN /\ all_sequences' = all_sequences \o
                [w \in 1..Len(starts) |->
                    build_sequence(telemetry_data, starts[w], seq_len)]
          /\ all_labels' = all_labels \o
                [w \in 1..Len(starts) |->
                    build_label(telemetry_data, starts[w], seq_len)]
          /\ all_origins' = all_origins \o
                [w \in 1..Len(starts) |-> [file |-> j, i |-> starts[w]]]
          /\ files_done' = j
    /\ UNCHANGED <<telemetry, loader_pc>>
    /\ UNCHANGED <<server_vars, cli_vars, train_vars, fn_vars>>

\* data_loader.py:111-126: the arrays are made and the label counts
\* printed; labels_array[:, 0] raises IndexError on an empty array.
return_arrays ==
    /\ loader_pc = "loading"
    /\ files_done = Len(telemetry)
    /\ loader_pc' = IF all_labels = <<>> THEN "raised" ELSE "returned"
    /\ UNCHANGED <<telemetry, files_done, all_sequences, all_labels,
                   all_origins>>
    /\ UNCHANGED <<server_vars, cli_vars, train_vars, fn_vars>>

NextLoader ==
    \/ process_file
    \/ return_arrays

SpecLoader == InitTelemetry /\ [][NextLoader]_vars

----------------------------------------------------------------------------
(* The epoch loop of train(), train.py:340-402 *)

\* No service is running and no checkpoint has been read.
IdleService ==
    /\ checkpoint = None
    /\ startup = "pending"
    /\ autopilot = None
    /\ seq_len = 1
    /\ ingested = <<>>
    /\ sequence_with_actions = <<>>
    /\ sequence_tensor = None
    /\ response = None
    /\ request = None
    /\ stdout = <<>>

\* The validation losses an epoch can end with.
ValLosses == {Num(1), Num(2), Num(3), nan}

\* train.py:340-343
InitTraining ==
    /\ IdleService
    /\ InitCLI
    /\ InitLoader
    /\ InitFn
    /\ epochs \in 1..MaxEpochs
    /\ early_stopping_patience \in 0..MaxPatience
    /\ epoch = 0
    /\ val_losses = <<>>
    /\ best_val_loss = inf
    /\ best_epoch = 0
    /\ patience_counter = 0
    /\ best_model_pt = None
    /\ final_model_pt = None
    /\ early_stopped = FALSE
    /\ train_pc = "loop"

\* train.py:394
should_stop_late(counter, patience) == patience > 0 /\ counter > patience
should_stop(counter, patience) == patience > 0 /\ counter >= patience

\* train.py:345-398: one turn of the epoch loop, val_loss being what
\* validate() returned for it.
run_epoch(val_loss) ==
    /\ train_pc = "loop"
    /\ epoch < epochs
    /\ epoch' = epoch + 1
    /\ val_losses' = Append(val_losses, val_loss)
    /\ IF float_lt(val_loss, best_val_loss)
       THEN /\ best_val_loss' = val_loss
            /\ best_epoch' = epoch + 1
            /\ patience_counter' = 0
            /\ best_model_pt' = [written_at |-> epoch + 1]
            /\ early_stopped' = FALSE
            /\ train_pc' = IF epoch + 1 = epochs THEN "after_loop" ELSE "loop"
       ELSE /\ patience_counter' = patience_counter + 1
            /\ early_stopped' =
                  should_stop(patience_counter + 1, early_stopping_patience)
            /\ train_pc' =
                  IF \/ should_stop(patience_counter + 1, early_stopping_patience)
                     \/ epoch + 1 = epochs
                  THEN "after_loop"
                  ELSE "loop"
            /\ UNCHANGED <<best_val_loss, best_epoch, best_model_pt>>
    /\ UNCHANGED <<epochs, early_stopping_patience, final_model_pt>>
    /\ UNCHANGED <<server_vars, cli_vars, loader_vars, fn_vars>>

\* train.py:400-402
save_final_model ==
    /\ train_pc = "after_loop"
    /\ final_model_pt' = [written_at |-> epoch]
    /\ train_pc' = "done"
    /\ UNCHANGED <<epochs, early_stopping_patience, epoch, val_losses,
                   best_val_loss, best_epoch, patience_counter,
                   best_model_pt, early_stopped>>
    /\ UNCHANGED <<server_vars, cli_vars, loader_vars, fn_vars>>

NextTraining ==
    \/ \E val_loss \in ValLosses : run_epoch(val_loss)
    \/ save_final_model

SpecTraining == InitTraining /\ [][NextTraining]_vars

----------------------------------------------------------------------------
(* dataset.py, augmentation.py and the batch step of train_epoch, on a
   dataset held in memory.  Rows are (l, ml, c, mr, r, speed) and
   (w, a, s, d); val_split is in hundredths, label_smoothing and the
   smoothed targets are in thousandths. *)

F1 == <<-50, 100, 750, 1400, 1600, 5>>
F2 == <<0, 200, 300, 250, 1500, 7>>
FeatureRows == {F1, F2}
LabelRows == {<<1, 1, 0, 0>>, <<0, 0, 1, 1>>}

\* The global generator: a state, from which every draw is determined.
RngStates == 0..2
seed_state(seed) == seed % Cardinality(RngStates)
advance(st) == (st + 1) % Cardinality(RngStates)

\* np.random.permutation(n) drawn in state st.
permutation(st, n) == [k \in 1..n |-> ((k + st) % n) + 1]

\* The standard normal draw for row k, column c in state st, as a whole
\* number: small and large draws of both signs occur.
standard_normal(st, k, c) ==
    LET m == (st + k + c) % 5 IN
    CASE m = 0 -> 0
      [] m = 1 -> 1
      [] m = 2 -> -1
      [] m = 3 -> 1000
      [] m = 4 -> -1000

Seeds == {42, 7}
ValSplits == {0, 20, 50, 100}
NoiseLevels == {0, 2}
LabelSmoothings == {0, 50, 100}

InitData ==
    /\ IdleService
    /\ InitCLI
    /\ InitLoader
    /\ InitTrain
    /\ \E n \in 0..MaxSamples :
          /\ data_features \in [1..n -> FeatureRows]
          /\ data_labels \in [1..n -> LabelRows]
    /\ np_random \in RngStates
    /\ fn_call = None
    /\ fn_result = None

\* features[indices], numpy's indexing with an index array.
take(array, indices) == [k \in 1..Len(indices) |-> array[indices[k]]]

\* dataset.py:18-30
TelemetryDataset(array_f, array_l) == [features |-> array_f, labels |-> array_l]

\* dataset.py:70-71, without the call of np.random.seed
split_state_unseeded(st, seed) == st
split_state(st, seed) == seed_state(seed)

\* dataset.py:49-90
create_train_val_split(val_split, seed) ==
    /\ fn_call' = [fn |-> "create_train_val_split",
                   val_split |-> val_split, seed |-> seed]
    /\ LET st == split_state(np_random, seed)
           n_samples == Len(data_features)
           indices == permutation(st, n_samples)
           val_size == (n_samples * val_split) \div 100
           train_size == n_samples - val_size
           train_indices == SubSeq(indices, 1, train_size)
           val_indices == SubSeq(indices, train_size + 1, n_samples)
       IN /\ fn_result' =
                [train_dataset |->
                    TelemetryDataset(take(data_features, train_indices),
                                     take(data_labels, train_indices)),
                 val_dataset |->
                    TelemetryDataset(take(data_features, val_indices),
                                     take(data_labels, val_indices))]
          /\ np_random' = advance(st)
    /\ UNCHANGED <<data_features, data_labels>>
    /\ UNCHANGED <<server_vars, cli_vars, loader_vars, train_vars>>

\* augmentation.py:18-27 on one row of features and one of labels.
mirror_feature_row_keep_inner(r) == <<r[5], r[2], r[3], r[4], r[1], r[6]>>
mirror_feature_row(r) == <<r[5], r[4], r[3], r[2], r[1], r[6]>>

mirror_label_row(l) == <<l[1], l[4], l[3], l[2]>>

\* augmentation.py:6-29, the value returned.
mirrored(array_f, array_l) ==
    [features |-> [k \in 1..Len(array_f) |-> mirror_feature_row(array_f[k])],
     labels |-> [k \in 1..Len(array_l) |-> mirror_label_row(array_l[k])]]

\* augmentation.py:6-29
mirror_telemetry ==
    /\ fn_call' = [fn |-> "mirror_telemetry"]
    /\ fn_result' = mirrored(data_features, data_labels)
    /\ UNCHANGED <<data_features, data_labels, np_random>>
    /\ UNCHANGED <<server_vars, cli_vars, loader_vars, train_vars>>

\* np.clip(x, 0, 1500), augmentation.py:51
clip_upper_only(x) == IF x > sensor_max THEN sensor_max ELSE x
clip(x) ==
    IF x < sensor_min THEN sensor_min
    ELSE IF x > sensor_max THEN sensor_max
    ELSE x

\* augmentation.py:44-53, the value returned when the noise is drawn in
\* state st.
noisy(array_f, noise_level, st) ==
    [k \in 1..Len(array_f) |->
        [c \in 1..6 |->
            IF c <= 5
            THEN clip(array_f[k][c] + noise_level * standard_normal(st, k, c))
            ELSE array_f[k][c]]]

\* augmentation.py:32-53
add_sensor_noise(noise_level) ==
    /\ fn_call' = [fn |-> "add_sensor_noise", noise_level |-> noise_level]
    /\ fn_result' = [features |-> noisy(data_features, noise_level, np_random)]
    /\ np_random' = advance(np_random)
    /\ UNCHANGED <<data_features, data_labels>>
    /\ UNCHANGED <<server_vars, cli_vars, loader_vars, train_vars>>

\* augmentation.py:87-90, the labels appended with the noisy mirrored rows
noisy_mirrored_labels_unmirrored(array_l, mirrored_l) == array_l
noisy_mirrored_labels(array_l, mirrored_l) == mirrored_l

\* augmentation.py:56-98
augment_dataset(mirror, add_noise, noise_level) ==
    /\ fn_call' = [fn |-> "augment_dataset", mirror |-> mirror,
                   add_noise |-> add_noise, noise_level |-> noise_level]
    /\ LET m == mirrored(data_features, data_labels)
           after_first == IF add_noise THEN advance(np_random) ELSE np_random
           after_second == IF add_noise /\ mirror
                           THEN advance(after_first) ELSE after_first
           mirrored_part ==
               IF mirror THEN m ELSE [features |-> <<>>, labels |-> <<>>]
           noisy_part ==
               IF add_noise
               THEN [features |-> noisy(data_features, noise_level, np_random),
                     labels |-> data_labels]
               ELSE [features |-> <<>>, labels |-> <<>>]
           noisy_mirrored_part ==
               IF add_noise /\ mirror
               THEN [features |-> noisy(m.features, noise_level, after_first),
                     labels |-> noisy_mirrored_labels(data_labels, m.labels)]
               ELSE [features |-> <<>>, labels |-> <<>>]
       IN /\ fn_result' =
                [features |-> data_features \o mirrored_part.features
                                 \o noisy_part.features
                                 \o noisy_mirrored_part.features,
                 labels |-> data_labels \o mirrored_part.labels
                               \o noisy_part.labels
                               \o noisy_mirrored_part.labels]
          /\ np_random' = after_second
    /\ UNCHANGED <<data_features, data_labels>>
    /\ UNCHANGED <<server_vars, cli_vars, loader_vars, train_vars>>

\* train.py:78: labels * (1.0 - label_smoothing) + label_smoothing / 2.0,
\* for a label of 0 or 1, in thousandths.
smooth(label, label_smoothing) ==
    IF label_smoothing > 0
    THEN label * (1000 - label_smoothing) + label_smoothing \div 2
    ELSE label * 1000

\* train.py:72-98: the step of train_epoch on one batch: the targets the
\* loss is computed against and those the accuracy is computed against.
train_epoch_batch(label_smoothing) ==
    /\ fn_call' = [fn |-> "train_epoch", label_smoothing |-> label_smoothing]
    /\ fn_result' =
          [labels_smoothed |->
              [k \in 1..Len(data_labels) |->
                 [c \in 1..4 |-> smooth(data_labels[k][c], label_smoothing)]],
           accuracy_labels |-> data_labels]
    /\ UNCHANGED <<data_features, data_labels, np_random>>
    /\ UNCHANGED <<server_vars, cli_vars, loader_vars, train_vars>>

NextData ==
    \/ \E val_split \in ValSplits : \E seed \in Seeds :
          create_train_val_split(val_split, seed)
    \/ mirror_telemetry
    \/ \E noise_level \in NoiseLevels : add_sensor_noise(noise_level)
    \/ \E mirror, add_noise \in BOOLEAN : \E noise_level \in NoiseLevels :
          augment_dataset(mirror, add_noise, noise_level)
    \/ \E label_smoothing \in LabelSmoothings :
          train_epoch_batch(label_smoothing)

SpecData == InitData /\ [][NextData]_vars

----------------------------------------------------------------------------
(* Properties *)

PredictAnswered ==
    /\ response # None
    /\ response.endpoint = "/predict"
    /\ response.status = 200

\* A /reset that was handled with the model loaded.
ResetHandled ==
    /\ response # None
    /\ response.endpoint = "/reset"
    /\ response.status # 503

Raw(obs) == SubSeq(obs, 1, n_sensor_fields)
Actions(obs) == SubSeq(obs, n_sensor_fields + 1, Len(obs))

LeftPad(w, n) ==
    [i \in 1..n |-> IF i <= n - Len(w) THEN w[1] ELSE w[i - (n - Len(w))]]

LastN(w, n) == [i \in 1..n |-> w[Len(w) - n + i]]

Binary(probs, th) == [i \in 1..Len(probs) |-> IF probs[i] >= th THEN 1 ELSE 0]

\* C1: every sequence built for the predictor holds exactly N = seq_len
\* observations.
C1_SequenceHasLengthN ==
    PredictAnswered => Len(sequence_with_actions) = seq_len

\* C2: after k ingests with 1 <= k < N the built sequence is N - k copies of
\* the first ingested observation followed by the k observations in order.
C2_ColdStartLeftPadded ==
    (PredictAnswered /\ 1 <= Len(ingested) /\ Len(ingested) < seq_len)
        => sequence_with_actions = LeftPad(ingested, seq_len)

\* C3: after k >= N ingests the built sequence is the last N ingested
\* observations, oldest first.
C3_SlidingWindowOfLastN ==
    (PredictAnswered /\ Len(ingested) >= seq_len)
        => sequence_with_actions = LastN(ingested, seq_len)

\* C4: the observations held for a session never number more than N.
C4_WindowAtMostN ==
    PredictAnswered => Len(sequence_with_actions) <= seq_len

\* C5: with the model loaded, POST /reset answers "buffer_reset" without an
\* error and leaves the session's window empty.
C5_ResetSucceeds ==
    ResetHandled =>
        /\ response.status = 200
        /\ response.body = "buffer_reset"
        /\ ingested = <<>>

C7_ThresholdIsGreaterOrEqual ==
    /\ PredictAnswered =>
          /\ response.forward = (response.probabilities[1] >= 50)
          /\ response.left = (response.probabilities[2] >= 50)
          /\ response.backward = (response.probabilities[3] >= 50)
          /\ response.right = (response.probabilities[4] >= 50)
    /\ \A p \in ProbLevels, th \in ThresholdLevels :
          /\ inference_command(p, th) = (p >= th)
          /\ predict_batch_command(p, th) = (IF p >= th THEN 1 ELSE 0)
          /\ predict_commands(p, th) = (IF p >= th THEN 1 ELSE 0)
          /\ pred_binary(p, th) = (IF p >= th THEN 1 ELSE 0)
    /\ {predict_threshold, predict_batch_threshold,
        predict_commands_threshold, calculate_accuracy_threshold} = {50}

C7_Witness ==
    /\ PredictAnswered
    /\ response.probabilities[3] = 50
    /\ response.backward
    /\ response.probabilities[2] < 50
    /\ ~response.left

\* C8: the observation composed by the ingest that follows a prediction
\* carries that prediction, thresholded at 0.5, in its four action fields;
\* with no prediction since start or reset the fields are [0,0,0,0].
C8_PreviousActionFeedback ==
    [][/\ (PredictAnswered /\ PredictAnswered' /\ ingested # <<>>)
            => Actions(ingested'[Len(ingested')])
                  = Binary(response.probabilities, 50)
       /\ (PredictAnswered' /\ ingested = <<>>)
            => Actions(ingested'[Len(ingested')]) = <<0, 0, 0, 0>>]_vars

\* C9: an observation keeps the action fields it was composed with: every
\* timestep of a built sequence whose reading the session ingested is one
\* of the observations composed at an ingest.
C9_ObservationsKeepTheirActions ==
    PredictAnswered =>
        \A j \in 1..Len(sequence_with_actions) :
            (\E k \in 1..Len(ingested) :
                Raw(ingested[k]) = Raw(sequence_with_actions[j]))
            => (\E k \in 1..Len(ingested) :
                ingested[k] = sequence_with_actions[j])

\* C10: every observation handed to the predictor has action fields that
\* are each exactly 0 or 1.
C10_ActionFieldsBinary ==
    PredictAnswered =>
        \A t \in 1..Len(sequence_with_actions) :
            \A f \in 1..n_action_fields :
                Actions(sequence_with_actions[t])[f] \in {0, 1}

\* POST /predict was handled by a loaded model (no 503).
PredictHandled ==
    /\ response # None
    /\ response.endpoint = "/predict"
    /\ response.status # 503

\* The sequence the request describes: each timestep followed by the
\* request's previous actions.
Composed(payload) ==
    [t \in 1..Len(payload.x) |-> payload.x[t] \o payload.prev_actions]

\* The normalized tensor the request and the checkpoint describe.
ExpectedTensor(payload, ckpt) ==
    IF ckpt.normalization_params = None
    THEN Composed(payload)
    ELSE [t \in 1..Len(payload.x) |->
            [f \in 1..Len(Composed(payload)[t]) |->
                [num |-> Composed(payload)[t][f]
                            - ckpt.normalization_params.mean[f],
                 den |-> ckpt.normalization_params.std[f]]]]

\* C11: a request in which some raw sensor reading does not have exactly
\* six values is rejected with a data-validation error (HTTP 422) and no
\* prediction is produced.
C11_WrongArityRejected ==
    (/\ PredictHandled
     /\ \E t \in 1..Len(request.x) : Len(request.x[t]) # n_sensor_fields)
        => /\ response.status = 422
           /\ sequence_tensor = None

\* The request cannot be evaluated: no timestep, or a composed timestep
\* that does not have the ten features the network takes.
EvaluationFails ==
    \/ Len(request.x) = 0
    \/ \E t \in 1..Len(request.x) :
          Len(request.x[t]) + Len(request.prev_actions) # input_size

\* C12: when the evaluation of a request fails, the answer is HTTP 500
\* with a detail that begins "Inference error", no prediction is kept, the
\* predictor is as it was loaded, and the sequence had already been built
\* from the request before the evaluation was attempted.
C12_InferenceFailurePropagates ==
    (PredictHandled /\ EvaluationFails)
        => /\ response.status = 500
           /\ response.detail = "Inference error"
           /\ sequence_tensor = None
           /\ autopilot = AutopilotInference(checkpoint)
           /\ sequence_with_actions = Composed(request)

C12_Witness ==
    /\ PredictHandled
    /\ EvaluationFails
    /\ response.status = 500
    /\ Len(request.x) = 2

\* C13: with a checkpoint that has no normalization record, the warning
\* has been printed and the features reach the network unchanged.
C13_MissingNormalizationIsIdentityWithWarning ==
    (PredictAnswered /\ checkpoint.normalization_params = None)
        => /\ \E i \in 1..Len(stdout) : stdout[i] = NoNormalizationWarning
           /\ sequence_tensor.data = Composed(request)

C13_Witness ==
    /\ PredictAnswered
    /\ checkpoint.normalization_params = None
    /\ Len(request.x) = 2
    /\ stdout # <<>>

\* C14: a standard deviation of exactly 0 in the loaded record is replaced
\* by 1 before the division, so no feature is divided by zero.
C14_ZeroStdReplacedAtInference ==
    (sequence_tensor # None /\ checkpoint.normalization_params # None)
        => \A t \in 1..Len(sequence_tensor.data) :
             \A f \in 1..Len(sequence_tensor.data[t]) :
                sequence_tensor.data[t][f].den =
                    IF checkpoint.normalization_params.std[f] = 0
                    THEN 1
                    ELSE checkpoint.normalization_params.std[f]

\* C15: with a normalization record, every feature f of every timestep is
\* (value - mean[f]) / std[f], the tensor has the shape of the input, and
\* the record is the one the checkpoint holds.
C15_NormalizationIsPure ==
    (PredictAnswered /\ checkpoint.normalization_params # None)
        => /\ Len(sequence_tensor.data) = Len(sequence_with_actions)
           /\ \A t \in 1..Len(sequence_with_actions) :
                /\ Len(sequence_tensor.data[t]) = Len(sequence_with_actions[t])
                /\ \A f \in 1..Len(sequence_with_actions[t]) :
                     sequence_tensor.data[t][f] =
                        [num |-> sequence_with_actions[t][f]
                                    - checkpoint.normalization_params.mean[f],
                         den |-> checkpoint.normalization_params.std[f]]
           /\ autopilot.normalization_params = checkpoint.normalization_params

C15_Witness ==
    /\ PredictAnswered
    /\ checkpoint.normalization_params # None
    /\ Len(request.x) = 2
    /\ request.x[1] # request.x[2]
    /\ sequence_tensor.data[2][3].num # 0

\* C16: what the service evaluates for a request is determined by the
\* request and the checkpoint: nothing of earlier requests enters it.
C16_NoSharedStateBetweenRequests ==
    PredictHandled
        => /\ sequence_with_actions = Composed(request)
           /\ EvaluationFails => response.status = 500
           /\ ~EvaluationFails
                => sequence_tensor = [data |-> ExpectedTensor(request, checkpoint)]
           /\ autopilot = AutopilotInference(checkpoint)

C16_Witness ==
    /\ PredictAnswered
    /\ Len(ingested) = 2
    /\ ingested[1] # ingested[2]
    /\ sequence_with_actions = Composed(request)

\* C17: the requests of a session are handled one after the other, so the
\* observation composed by a request carries, in its action fields, the
\* prediction recorded by the request handled immediately before it.
C17_SerializedSessionFeedback ==
    [][(PredictAnswered /\ PredictAnswered')
          => Actions(sequence_with_actions'[Len(sequence_with_actions')])
                = Binary(response.probabilities, server_threshold)]_vars

\* The booleans of a response, in the order forward, left, backward, right.
Booleans(r) == <<r.forward, r.left, r.backward, r.right>>

\* C18: a successful response carries four probabilities, each in [0,1],
\* and four booleans, each the comparison of its own probability with 0.5:
\* forward from w, left from a, backward from s, right from d; the sixteen
\* combinations of booleans are all produced by some probability vector.
C18_ResponseShape ==
    /\ PredictAnswered
        => /\ Len(response.probabilities) = 4
           /\ \A i \in 1..4 : response.probabilities[i] \in 0..100
           /\ response.forward = (response.probabilities[1] >= 50)
           /\ response.left = (response.probabilities[2] >= 50)
           /\ response.backward = (response.probabilities[3] >= 50)
           /\ response.right = (response.probabilities[4] >= 50)
    /\ Cardinality({Booleans(ControlCommands(probs)) :
                        probs \in [1..4 -> {49, 50}]}) = 16
    /\ \A probs \in [1..4 -> {0, 49, 50, 100}] :
          Booleans(ControlCommands(probs))
             = <<probs[1] >= 50, probs[2] >= 50, probs[3] >= 50, probs[4] >= 50>>

C18_Witness ==
    /\ PredictAnswered
    /\ response.forward /\ response.backward /\ response.right
    /\ ~response.left
    /\ response.probabilities = <<60, 40, 50, 51>>

\* C19: whatever tensor a method of AutopilotInference hands to the network
\* has the shape (batch, T, 10).
C19_PredictorInputIsBatchTWidth10 ==
    features_tensor # None
        => /\ Len(features_tensor.shape) = 3
           /\ features_tensor.shape[3] = input_size

\* The [w, a, s, d] key state of a telemetry sample.
KeyState(sample) ==
    <<IF sample.w_pressed THEN 1 ELSE 0, IF sample.a_pressed THEN 1 ELSE 0,
      IF sample.s_pressed THEN 1 ELSE 0, IF sample.d_pressed THEN 1 ELSE 0>>

\* The sample of the last of the seq_len timesteps of the window that
\* starts at sample i (from 0) of a file: sample i + seq_len - 1.
FinalTimestepSample(origin) ==
    telemetry[origin.file][(origin.i + seq_len - 1) + 1]

\* C20: the label of every generated sequence is the key state of the
\* sample at the sequence's final timestep.
C20_LabelAtFinalTimestep ==
    \A q \in 1..Len(all_labels) :
        all_labels[q] = KeyState(FinalTimestepSample(all_origins[q]))

\* The sequences of file j among those generated so far.
SequencesOf(j) == {q \in 1..Len(all_origins) : all_origins[q].file = j}

\* The samples of the file a sequence was generated from.
FileOf(q) == telemetry[all_origins[q].file]

\* C21: every timestep, every previous-action source and the label of a
\* sequence are samples of one and the same file; a file of L samples that
\* the loop has been through has L - seq_len sequences if L >= seq_len + 1
\* and none otherwise; there are as many labels as sequences.
C21_SequencesStayWithinOneFile ==
    /\ Len(all_sequences) = Len(all_labels)
    /\ Len(all_sequences) = Len(all_origins)
    /\ \A j \in 1..Len(telemetry) :
          Cardinality(SequencesOf(j)) =
             IF j <= files_done /\ Len(telemetry[j]) >= seq_len + 1
             THEN Len(telemetry[j]) - seq_len
             ELSE 0
    /\ \A q \in 1..Len(all_sequences) :
          LET i == all_origins[q].i IN
          /\ Len(all_sequences[q]) = seq_len
          /\ i + seq_len + 1 <= Len(FileOf(q))
          /\ \A t \in 0..(seq_len - 1) :
                /\ Raw(all_sequences[q][t + 1])
                      = <<FileOf(q)[i + t + 1].l_sensor_range,
                          FileOf(q)[i + t + 1].ml_sensor_range,
                          FileOf(q)[i + t + 1].c_sensor_range,
                          FileOf(q)[i + t + 1].mr_sensor_range,
                          FileOf(q)[i + t + 1].r_sensor_range,
                          FileOf(q)[i + t + 1].speed>>
                /\ i + t > 0
                     => Actions(all_sequences[q][t + 1])
                           = KeyState(FileOf(q)[i + t])
          /\ all_labels[q] = KeyState(FileOf(q)[i + seq_len + 1])

C21_Witness ==
    /\ loader_pc = "returned"
    /\ Len(telemetry) = 2
    /\ SequencesOf(1) # {}
    /\ SequencesOf(2) # {}
    /\ \E j \in 1..2 : Cardinality(SequencesOf(j)) >= 2

RECURSIVE BestAfter(_, _)
BestAfter(h, k) ==
    IF k = 0 THEN [kind |-> "inf", v |-> 0]
    ELSE LET before == BestAfter(h, k - 1) IN
         IF /\ h[k].kind = "num"
            /\ (before.kind = "inf" \/ (before.kind = "num" /\ h[k].v < before.v))
         THEN h[k] ELSE before

\* Epoch k strictly improved on the best value before it.
Improved(h, k) == BestAfter(h, k) # BestAfter(h, k - 1)

\* The number of consecutive epochs, ending with epoch k, without a strict
\* improvement.
RECURSIVE Streak(_, _)
Streak(h, k) ==
    IF k = 0 \/ Improved(h, k) THEN 0 ELSE 1 + Streak(h, k - 1)

\* C23: with patience P > 0 the loop is left exactly at the first epoch
\* that ends a run of P epochs without strict improvement; a strict
\* improvement sets the counter to 0; with P = 0 all the epochs run.
C23_EarlyStopping ==
    (train_pc # "idle") =>
        /\ patience_counter = Streak(val_losses, epoch)
        /\ early_stopped
             => /\ early_stopping_patience > 0
                /\ Streak(val_losses, epoch) = early_stopping_patience
                /\ \A k \in 0..(epoch - 1) :
                      Streak(val_losses, k) < early_stopping_patience
                /\ train_pc # "loop"
        /\ (early_stopping_patience > 0
              /\ Streak(val_losses, epoch) >= early_stopping_patience)
             => train_pc # "loop"
        /\ (train_pc # "loop" /\ ~early_stopped) => epoch = epochs
        /\ (train_pc # "loop" /\ early_stopping_patience = 0) => epoch = epochs

C23_Witness ==
    /\ train_pc = "done"
    /\ early_stopped
    /\ early_stopping_patience = 2
    /\ epoch = 5
    /\ epoch < epochs + 1
    /\ Improved(val_losses, 3)
    /\ ~Improved(val_losses, 2)

\* C24: after every epoch best_val_loss is the least validation loss so
\* far, best_epoch the first epoch that had it, and best_model.pt was last
\* written at that epoch; so best_epoch is in 1..epochs and best_model.pt
\* exists, and final_model.pt is written however the loop ended.
C24_BestCheckpoint ==
    /\ epoch >= 1
         => /\ \E k \in 1..epoch :
                 /\ best_val_loss = val_losses[k]
                 /\ \A m \in 1..epoch :
                       ~(/\ val_losses[m].kind = "num"
                         /\ val_losses[k].kind = "num"
                         /\ val_losses[m].v < val_losses[k].v)
                 /\ \A m \in 1..(k - 1) : val_losses[m] # val_losses[k]
                 /\ best_epoch = k
            /\ best_epoch \in 1..epochs
            /\ best_model_pt = [written_at |-> best_epoch]
    /\ train_pc = "done" => final_model_pt # None

\* The epochs so far whose validation loss is a number.
NumberEpochs == {k \in 1..epoch : val_losses[k].kind = "num"}

\* C24, amended: while no epoch has had a number as validation loss,
\* best_val_loss is inf, best_epoch is 0 and best_model.pt has not been
\* written; from the first such epoch on, best_val_loss is the least of
\* those losses, best_epoch the first epoch that had it, and best_model.pt
\* was last written at that epoch; final_model.pt is written after the
\* last epoch run, however the loop ended.
C24_BestCheckpointAmongNumbers ==
    /\ NumberEpochs = {}
         => /\ best_val_loss = [kind |-> "inf", v |-> 0]
            /\ best_epoch = 0
            /\ best_model_pt = None
    /\ NumberEpochs # {}
         => \E k \in NumberEpochs :
               /\ \A m \in NumberEpochs : val_losses[k].v <= val_losses[m].v
               /\ \A m \in NumberEpochs :
                     m < k => val_losses[k].v < val_losses[m].v
               /\ best_val_loss = val_losses[k]
               /\ best_epoch = k
               /\ best_epoch \in 1..epochs
               /\ best_model_pt = [written_at |-> k]
    /\ train_pc = "done" => final_model_pt = [written_at |-> epoch]
    /\ train_pc \in {"loop", "after_loop"} => final_model_pt = None

C24_Witness ==
    /\ train_pc = "done"
    /\ early_stopped
    /\ epoch = 4
    /\ val_losses[1].kind = "nan"
    /\ best_epoch = 2
    /\ val_losses[3] = val_losses[2]
    /\ best_model_pt = [written_at |-> 2]
    /\ final_model_pt = [written_at |-> 4]

\* The last call was a call of the function fn.
Called(fn) == fn_call # None /\ fn_call.fn = fn

\* The permutations of 1..n.
IndexOrders(n) ==
    {pi \in [1..n -> 1..n] : \A a, b \in 1..n : pi[a] = pi[b] => a = b}

\* What create_train_val_split returned is a partition of the samples
\* with the sizes asked for.
SplitIsPartition ==
    Called("create_train_val_split") =>
        LET n == Len(data_features)
            tr == fn_result.train_dataset
            va == fn_result.val_dataset
        IN /\ Len(tr.features) = Len(tr.labels)
           /\ Len(va.features) = Len(va.labels)
           /\ Len(tr.features) + Len(va.features) = n
           /\ Len(va.features) * 100 <= n * fn_call.val_split
           /\ n * fn_call.val_split < (Len(va.features) + 1) * 100
           /\ \E pi \in IndexOrders(n) :
                 /\ \A k \in 1..Len(tr.features) :
                       /\ tr.features[k] = data_features[pi[k]]
                       /\ tr.labels[k] = data_labels[pi[k]]
                 /\ \A k \in 1..Len(va.features) :
                       /\ va.features[k] = data_features[pi[Len(tr.features) + k]]
                       /\ va.labels[k] = data_labels[pi[Len(tr.features) + k]]

\* C25: create_train_val_split puts every sample, with its own label, in
\* exactly one of the two sets; the validation set has floor(n * val_split)
\* samples and the training set the rest; a second call with the same
\* inputs and seed returns the same split.
C25_SplitPartitions ==
    [][/\ SplitIsPartition'
       /\ (Called("create_train_val_split") /\ fn_call' = fn_call)
            => fn_result' = fn_result
       /\ data_features' = data_features
       /\ data_labels' = data_labels]_vars

C25_Witness ==
    /\ Called("create_train_val_split")
    /\ fn_call.val_split = 50
    /\ Len(data_features) = 3
    /\ Len(fn_result.val_dataset.features) = 1
    /\ Len(fn_result.train_dataset.features) = 2
    /\ fn_result.train_dataset.features[1] # data_features[1]
    /\ fn_result.train_dataset.labels[1] # data_labels[1]

\* What mirror_telemetry returned: L and R, ML and MR, A and D swapped,
\* the rest as it was, and mirroring it again gives the input back.
MirrorSwaps ==
    Called("mirror_telemetry") =>
        /\ Len(fn_result.features) = Len(data_features)
        /\ Len(fn_result.labels) = Len(data_labels)
        /\ \A k \in 1..Len(data_features) :
              fn_result.features[k] =
                 <<data_features[k][5], data_features[k][4],
                   data_features[k][3], data_features[k][2],
                   data_features[k][1], data_features[k][6]>>
        /\ \A k \in 1..Len(data_labels) :
              fn_result.labels[k] =
                 <<data_labels[k][1], data_labels[k][4],
                   data_labels[k][3], data_labels[k][2]>>
        /\ mirrored(fn_result.features, fn_result.labels)
              = [features |-> data_features, labels |-> data_labels]

\* C26: mirror_telemetry swaps L with R, ML with MR and A with D, leaves
\* the centre sensor, the speed, W and S alone, leaves its arguments as
\* they were, and applied twice returns the original.
C26_MirrorIsInvolution ==
    [][/\ MirrorSwaps'
       /\ Called("mirror_telemetry")'
            => /\ data_features' = data_features
               /\ data_labels' = data_labels]_vars

C26_Witness ==
    /\ Called("mirror_telemetry")
    /\ Len(data_features) = 3
    /\ data_features[1] # data_features[2]
    /\ data_labels[1] # data_labels[2]
    /\ fn_result.features[1] # data_features[1]
    /\ fn_result.labels[1] # data_labels[1]

\* What add_sensor_noise returned: sensors within [0, 1500], speed as given.
NoiseIsClamped ==
    Called("add_sensor_noise") =>
        /\ Len(fn_result.features) = Len(data_features)
        /\ \A k \in 1..Len(data_features) :
              /\ Len(fn_result.features[k]) = 6
              /\ \A c \in 1..5 :
                    /\ fn_result.features[k][c] >= 0
                    /\ fn_result.features[k][c] <= 1500
              /\ fn_result.features[k][6] = data_features[k][6]

\* C27: the five sensor columns add_sensor_noise returns lie in [0, 1500]
\* whatever the input and the noise, the speed column is the input's, and
\* the argument is left as it was.
C27_NoiseStaysInRange ==
    [][/\ NoiseIsClamped'
       /\ Called("add_sensor_noise")'
            => /\ data_features' = data_features
               /\ data_labels' = data_labels]_vars

C27_Witness ==
    /\ Called("add_sensor_noise")
    /\ fn_call.noise_level = 2
    /\ \E k \in 1..Len(data_features) :
          /\ data_features[k][1] < 0
          /\ fn_result.features[k][1] = 0
          /\ data_features[k][5] > 1500
          /\ fn_result.features[k][5] = 1500
          /\ \E c \in 2..4 :
                /\ fn_result.features[k][c] # data_features[k][c]
                /\ fn_result.features[k][c] \in 1..1499

\* C28: augment_dataset on n samples returns n * (1 + m) * (1 + z) rows of
\* features and as many labels; the first n are the originals; a noisy row
\* has the label of the row it was made from, the mirrored label when that
\* row is a mirrored one.
C28_AugmentedSize ==
    Called("augment_dataset") =>
        LET n == Len(data_features)
            m == IF fn_call.mirror THEN 1 ELSE 0
            z == IF fn_call.add_noise THEN 1 ELSE 0
        IN /\ Len(fn_result.features) = n * (1 + m) * (1 + z)
           /\ Len(fn_result.labels) = Len(fn_result.features)
           /\ \A k \in 1..n :
                 /\ fn_result.features[k] = data_features[k]
                 /\ fn_result.labels[k] = data_labels[k]
           /\ z = 1 =>
                \A k \in 1..n :
                   /\ fn_result.labels[(1 + m) * n + k] = data_labels[k]
                   /\ fn_result.features[(1 + m) * n + k][6]
                         = data_features[k][6]
           /\ (z = 1 /\ m = 1) =>
                \A k \in 1..n :
                   /\ fn_result.labels[3 * n + k] = fn_result.labels[n + k]
                   /\ fn_result.labels[3 * n + k] =
                         <<data_labels[k][1], data_labels[k][4],
                           data_labels[k][3], data_labels[k][2]>>
                   /\ fn_result.features[3 * n + k][6]
                         = data_features[k][6]

C28_Witness ==
    /\ Called("augment_dataset")
    /\ fn_call.mirror /\ fn_call.add_noise
    /\ fn_call.noise_level = 2
    /\ Len(data_features) = 3
    /\ Len(fn_result.features) = 12
    /\ fn_result.labels[10] # fn_result.labels[7]

\* C29: with factor s > 0 the loss target of a label 1.0 is 1 - s and that
\* of a label 0.0 is s; with s = 0 the targets are the labels; the accuracy
\* is computed against the labels themselves.  (Thousandths.)
C29_LabelSmoothing ==
    Called("train_epoch") =>
        /\ \A k \in 1..Len(data_labels) : \A c \in 1..4 :
              fn_result.labels_smoothed[k][c] =
                 IF fn_call.label_smoothing > 0
                 THEN IF data_labels[k][c] = 1
                      THEN 1000 - fn_call.label_smoothing
                      ELSE fn_call.label_smoothing
                 ELSE 1000 * data_labels[k][c]
        /\ fn_result.accuracy_labels = data_labels

\* What a client can have received last while no model is loaded.
NotLoadedAnswers ==
    {HTTPException("/predict", 503, "Model not loaded"),
     HTTPException("/reset", 503, "Model not loaded"),
     [endpoint |-> "/health", status |-> 200,
      model_loaded |-> FALSE, model_type |-> "null"]}

\* C30: while no model is loaded every /predict and /reset is answered 503
\* "Model not loaded", nothing is evaluated and no sequence state changes,
\* and /health says model_loaded = false; a failed load at startup leaves
\* no model behind and the service handles no request after it, so every
\* prediction comes from the completely loaded model.
C30_NoModelNoPrediction ==
    [][/\ autopilot = None =>
             /\ UNCHANGED <<ingested, sequence_with_actions, sequence_tensor>>
             /\ request' # request =>
                   response' = HTTPException("/predict", 503,
                                             "Model not loaded")
             /\ response' # response =>
                   /\ autopilot' = None
                   /\ response' \in NotLoadedAnswers
             /\ autopilot' # None =>
                   /\ checkpoint # Corrupt
                   /\ startup' = "done"
                   /\ autopilot' = AutopilotInference(checkpoint)
       /\ startup # "failed"
       /\ startup' = "failed" => (checkpoint = Corrupt /\ autopilot' = None)
       /\ (response' # response /\ response'.status # 503
             /\ response'.endpoint # "/health") =>
             /\ startup' = "done"
             /\ autopilot' = AutopilotInference(checkpoint)]_vars

C30_Witness ==
    /\ startup = "failed"
    /\ checkpoint = Corrupt
    /\ autopilot = None
    /\ request # None
    /\ response = HTTPException("/predict", 503, "Model not loaded")
    /\ sequence_tensor = None
    /\ ingested = <<>>

====
